---- MODULE Spec2Model ----
(***************************************************************************)
(* dependify: the Container (registry) and the Dependency (recipe) of      *)
(* src/dependify/container.py and src/dependify/dependency.py, as a state  *)
(* machine over a small Python heap: dict objects, Dependency objects and  *)
(* the instances the registered targets produce.                           *)
(***************************************************************************)
EXTENDS Integers, Sequences, FiniteSets, TLC

\* ------------------------------------------------------------------ bounds
\* Dependency objects constructed by register over a run.
MaxRegs == 3
\* Dependency objects constructed before and between the constructor calls
\* of SpecBinder.
MaxBinderRegs == 2
\* Instances created by the targets over a run.
MaxObjs == 3
\* Depth of nested Container.resolve calls at which Python raises
\* RecursionError (sys.getrecursionlimit() frames, scaled down).
RecursionLimit == 4

\* ------------------------------------------------------------ the universe
\* The classes used as registry keys.
\*   class A:  def __init__(self, b: B, n=3)
\*   class B:  def __init__(self, c: C = "lit")
\*   class C:  def __init__(self); def __len__(self): return 0
\*             (a collection, empty when built: its instances are falsy)
Symbols == {"A", "B", "C"}
\* Factory functions offered as replacement.
\*   def mkNone(): return None
\*   def mkCyc(a: A): return Obj()
\*   def mkTwo(b: B, c: C = "lit"): return Obj()
\*   def mkEmpty(c: C = "lit"): return C()
Factories == {"mkNone", "mkCyc", "mkTwo", "mkEmpty"}
Targets == Symbols \cup Factories
\* register's replacement argument: a target, or None when omitted.
NoReplacement == "None"
Replacements == Factories \cup {NoReplacement}
\* The register(symbol, replacement) calls the callers make: each class
\* registered as itself, C provided by mkNone, B provided by mkCyc.
Registrations ==
    {<<s, NoReplacement>> : s \in Symbols} \cup {<<"C", "mkNone">>, <<"B", "mkCyc">>}
\* The register calls of the runs that build dependency graphs: A can also
\* be provided by mkTwo, which declares two typed parameters, and B by
\* mkEmpty, which declares one and returns a falsy object.
GraphRegistrations == Registrations \cup {<<"A", "mkTwo">>, <<"B", "mkEmpty">>}
\* The registry of those runs.
GraphContainer == "c1"

\* The two Container objects of a run, c1 = Container() and c2 = Container()
\* or Container({}), and the dict objects they can hold: DefaultDict is the
\* dict built once, when the class body runs, for the default value of the
\* parameter `dependencies` of Container.__init__; OwnDict is the dict a
\* caller builds and passes.
Containers == {"c1", "c2"}
DefaultDict == "default"
OwnDict == "own"
Dicts == {DefaultDict, OwnDict}
\* The containers that may be created as Container({}).
WithOwnDict == {"c2"}
Unborn == "unborn"

\* ------------------------------------------------------------------ values
\* A Python value is [id, cls]: id 0 is an interned constant, ids from 1 are
\* the objects the targets create.
NoneV == [id |-> 0, cls |-> "NoneType"]
Int3 == [id |-> 0, cls |-> "int"]
Lit == [id |-> 0, cls |-> "str"]
NoDefault == [id |-> 0, cls |-> "_empty"]
Empty == "_empty"
FalsyClasses == {"NoneType", "C"}

\* bool(v): None is false, an object with __len__() == 0 is false.
Truthy(v) == v.cls \notin FalsyClasses

\* inspect.signature(target).parameters, in order (self excluded).
Signature(t) ==
    CASE t = "A" -> << [name |-> "b", annotation |-> "B", default |-> NoDefault],
                       [name |-> "n", annotation |-> Empty, default |-> Int3] >>
      [] t = "B" -> << [name |-> "c", annotation |-> "C", default |-> Lit] >>
      [] t = "mkCyc" -> << [name |-> "a", annotation |-> "A", default |-> NoDefault] >>
      [] t = "mkTwo" -> << [name |-> "b", annotation |-> "B", default |-> NoDefault],
                           [name |-> "c", annotation |-> "C", default |-> Lit] >>
      [] t = "mkEmpty" -> << [name |-> "c", annotation |-> "C", default |-> Lit] >>
      [] OTHER -> << >>

\* The class of what a call of the target returns.
ReturnClass(t) ==
    CASE t \in Symbols -> t
      [] t = "mkNone" -> "NoneType"
      [] t = "mkEmpty" -> "C"
      [] OTHER -> "Obj"

\* The entries of a signature (or of a field specification), as a set.
Params(sig) == {sig[k] : k \in 1..Len(sig)}

\* dict.__setitem__
SetItem(d, k, v) == [x \in DOMAIN d \cup {k} |-> IF x = k THEN v ELSE d[x]]
EmptyMap == [x \in {} |-> NoneV]

RECURSIVE TypesOf(_, _)
\* Dependency.__init__: self.types, the annotated parameters in order.
TypesOf(sig, n) ==
    IF n = 0 THEN << >>
    ELSE IF sig[n].annotation # Empty
         THEN Append(TypesOf(sig, n - 1), [name |-> sig[n].name, symbol |-> sig[n].annotation])
         ELSE TypesOf(sig, n - 1)

\* Dependency.__init__: self.defaults, the parameters with a default.
DefaultsOf(sig) ==
    LET withDefault == {i \in 1..Len(sig) : sig[i].default # NoDefault}
    IN [nm \in {sig[i].name : i \in withDefault} |->
            (CHOOSE p \in {sig[i] : i \in withDefault} : p.name = nm).default]

\* Dependency(symbol, cached): a new Dependency object. `id` is its identity:
\* the objects a dict slot holds over time are numbered 1, 2, ...
Dependency(symbol, cached, id) ==
    [id |-> id, target |-> symbol, cached |-> cached, instance |-> NoneV,
     types |-> TypesOf(Signature(symbol), Len(Signature(symbol))),
     defaults |-> DefaultsOf(Signature(symbol))]

\* ------------------------------------------------------------------- state
VARIABLES
    self_dependencies,  \* Container -> the dict its __dependencies refers to
    dicts,              \* dict object -> its content (symbol -> Dependency)
    nextDep,            \* Dependency objects constructed so far
    nextObj,            \* instances created so far
    view,               \* the mapping proxy a caller holds (dependencies())
    last,               \* the call just made: arguments, result, trace
    threads             \* thread -> where it stands in a resolve call

vars == <<self_dependencies, dicts, nextDep, nextObj, view, last, threads>>

NoCall ==
    [op |-> "init", c |-> "", symbol |-> "", replacement |-> "", cached |-> FALSE,
     val |-> NoneV, err |-> "", log |-> << >>,
     args |-> << >>, named |-> << >>, fields |-> EmptyMap, names |-> << >>]
NoView == [c |-> "", ref |-> "", readonly |-> TRUE]
\* The threads that call resolve concurrently, and a thread outside any
\* call.
Threads == {"t1", "t2"}
Idle ==
    [pc |-> "idle", c |-> "", symbol |-> "", dep |-> 0, kwargs |-> EmptyMap,
     val |-> NoneV, err |-> "", invoked |-> FALSE, late |-> FALSE]

Init ==
    /\ self_dependencies = [c \in Containers |-> Unborn]
    /\ dicts = [d \in Dicts |-> EmptyMap]
    /\ nextDep = 0
    /\ nextObj = 0
    /\ view = NoView
    /\ last = NoCall
    /\ threads = [t \in Threads |-> Idle]

\* Container.__init__(dependencies={}) / Container.__init__({}): the
\* attribute is bound to the dict passed, the default one when none is.
NewContainer(c, explicit) ==
    /\ self_dependencies[c] = Unborn
    /\ explicit => c \in WithOwnDict
    /\ self_dependencies' = [self_dependencies EXCEPT ![c] =
                                IF explicit THEN OwnDict ELSE DefaultDict]
    /\ last' = [NoCall EXCEPT !.op = "new", !.c = c]
    /\ UNCHANGED <<dicts, nextDep, nextObj, view, threads>>

Born(c) == self_dependencies[c] # Unborn

\* has() that finds nothing.
has_never(c, symbol) == FALSE

\* Container.has
has(c, symbol) == symbol \in DOMAIN dicts[self_dependencies[c]]

Has(c, symbol) ==
    /\ Born(c)
    /\ last' = [NoCall EXCEPT !.op = "has", !.c = c, !.symbol = symbol,
                              !.val = [id |-> 0, cls |-> IF has(c, symbol) THEN "True" ELSE "False"]]
    /\ UNCHANGED <<self_dependencies, dicts, nextDep, nextObj, view, threads>>

\* register_dependency that keeps an entry the dict already has
\* (dict.setdefault).
register_dependency_setdefault(ds, d, symbol, dependency) ==
    IF symbol \in DOMAIN ds[d] THEN ds
    ELSE [ds EXCEPT ![d] = SetItem(ds[d], symbol, dependency)]

\* Container.register_dependency
register_dependency(ds, d, symbol, dependency) ==
    [ds EXCEPT ![d] = SetItem(ds[d], symbol, dependency)]

\* register: `if not replacement: replacement = symbol`
TargetOf(symbol, replacement) ==
    IF replacement = NoReplacement THEN symbol ELSE replacement

\* The identity of the next Dependency object stored under symbol.
NewDepId(d, symbol) == IF symbol \in DOMAIN d THEN d[symbol].id + 1 ELSE 1

\* Container.register
Register(c, symbol, replacement, cached) ==
    /\ Born(c)
    /\ nextDep < MaxRegs
    /\ nextDep' = nextDep + 1
    /\ dicts' = register_dependency(dicts, self_dependencies[c], symbol,
                    Dependency(TargetOf(symbol, replacement), cached,
                               NewDepId(dicts[self_dependencies[c]], symbol)))
    /\ last' = [NoCall EXCEPT !.op = "register", !.c = c, !.symbol = symbol,
                              !.replacement = replacement, !.cached = cached]
    /\ UNCHANGED <<self_dependencies, nextObj, view, threads>>

\* resolve without its first test: every symbol is looked up.
NotRegistered_never(d, symbol) == FALSE

\* `symbol not in self.__dependencies` (resolve's first test)
NotRegistered(d, symbol) == symbol \notin DOMAIN d

\* `if inner_dep:` in place of `is not None`.
IsNotNone_truthy(v) == Truthy(v)

\* `inner_dep is not None`
IsNotNone(v) == v # NoneV

\* `not self.instance`
NoInstance(dependency) == ~Truthy(dependency.instance)

\* The parameters of t that a call must supply.
Required(t) ==
    {Signature(t)[i].name : i \in {j \in 1..Len(Signature(t)) :
                                        Signature(t)[j].default = NoDefault}}

\* One entry of the trace of a call: an invocation of a target ("invoke")
\* or the end of a Container.resolve call ("return"), with its nesting depth.
Event(ev, symbol, depth, dependency, kwargs, val, err) ==
    [ev |-> ev, symbol |-> symbol, depth |-> depth, dep |-> dependency.id,
     target |-> dependency.target, kwargs |-> kwargs, val |-> val, err |-> err]
NoDependency == [id |-> 0, target |-> ""]

\* A call that yields None, and raises nothing, when kwargs lacks a required
\* parameter.
Invoke_returns_none(st, symbol, dependency, kwargs, depth) ==
    LET t == dependency.target
        fresh == ReturnClass(t) # "NoneType" /\ Required(t) \ DOMAIN kwargs = {}
        ret == IF fresh THEN [id |-> st.nextObj + 1, cls |-> ReturnClass(t)] ELSE NoneV
    IN [st |-> [st EXCEPT !.log = Append(@, Event("invoke", symbol, depth, dependency,
                                                   kwargs, ret, "")),
                           !.nextObj = IF fresh THEN @ + 1 ELSE @],
        val |-> ret, err |-> ""]

\* self.target(**kwargs): Python's call. A required parameter that kwargs
\* lacks raises TypeError; otherwise the target returns None (mkNone) or a
\* new object.
Invoke(st, symbol, dependency, kwargs, depth) ==
    LET t == dependency.target
    IN IF Required(t) \ DOMAIN kwargs # {}
       THEN [st |-> [st EXCEPT !.log = Append(@, Event("invoke", symbol, depth, dependency,
                                                       kwargs, NoneV, "TypeError"))],
             val |-> NoneV, err |-> "TypeError"]
       ELSE LET fresh == ReturnClass(t) # "NoneType"
                ret == IF fresh THEN [id |-> st.nextObj + 1, cls |-> ReturnClass(t)]
                       ELSE NoneV
            IN [st |-> [st EXCEPT !.log = Append(@, Event("invoke", symbol, depth, dependency,
                                                          kwargs, ret, "")),
                                  !.nextObj = IF fresh THEN @ + 1 ELSE @],
                val |-> ret, err |-> ""]

\* Dependency.resolve with the cached flag ignored: every recipe caches.
Dependency_resolve_caches_all(st, d, symbol, kwargs, depth) ==
    LET dependency == st.dicts[d][symbol]
        r == Invoke(st, symbol, dependency, kwargs, depth)
    IN IF ~Truthy(dependency.instance)
       THEN IF r.err # "" THEN r ELSE [r EXCEPT !.st.dicts[d][symbol].instance = r.val]
       ELSE [st |-> st, val |-> dependency.instance, err |-> ""]

\* Dependency.resolve(**kwargs) on the Dependency stored at dicts[d][symbol].
Dependency_resolve(st, d, symbol, kwargs, depth) ==
    LET dependency == st.dicts[d][symbol]
        r == Invoke(st, symbol, dependency, kwargs, depth)
    IN IF dependency.cached
       THEN IF NoInstance(dependency)
            THEN IF r.err # ""
                 THEN r
                 ELSE [r EXCEPT !.st.dicts[d][symbol].instance = r.val]
            ELSE [st |-> st, val |-> dependency.instance, err |-> ""]
       ELSE r

\* The end of a Container.resolve call, added to the trace.
Returned(r, symbol, depth) ==
    [r EXCEPT !.st.log = Append(@, Event("return", symbol, depth, NoDependency,
                                         EmptyMap, r.val, r.err))]

RECURSIVE resolve(_, _, _, _)
RECURSIVE resolve_types(_, _, _, _, _, _)

\* A resolve that resolves no declared parameter type.
resolve_types_none(st, d, types, i, kwargs, depth) ==
    [st |-> st, kwargs |-> kwargs, err |-> ""]

\* A resolve that consults the cache first: a cached recipe that holds an
\* instance returns it before any parameter type is resolved.
resolve_cache_first(st, d, symbol, depth) ==
    IF depth > RecursionLimit
    THEN Returned([st |-> st, val |-> NoneV, err |-> "RecursionError"], symbol, depth)
    ELSE IF NotRegistered(st.dicts[d], symbol)
    THEN Returned([st |-> st, val |-> NoneV, err |-> ""], symbol, depth)
    ELSE IF st.dicts[d][symbol].cached /\ ~NoInstance(st.dicts[d][symbol])
    THEN Returned([st |-> st, val |-> st.dicts[d][symbol].instance, err |-> ""],
                  symbol, depth)
    ELSE LET dependency == st.dicts[d][symbol]
             args == resolve_types(st, d, dependency.types, 1, dependency.defaults, depth)
         IN IF args.err # ""
            THEN Returned([st |-> args.st, val |-> NoneV, err |-> args.err], symbol, depth)
            ELSE Returned(Dependency_resolve(args.st, d, symbol, args.kwargs, depth),
                          symbol, depth)

\* The loop of Container.resolve over dependency.types.items(), from the
\* i-th entry on: each declared type is resolved, and a result that is not
\* None is stored in kwargs under the parameter's name.
resolve_types(st, d, types, i, kwargs, depth) ==
    IF i > Len(types)
    THEN [st |-> st, kwargs |-> kwargs, err |-> ""]
    ELSE LET inner == resolve(st, d, types[i].symbol, depth + 1)
         IN IF inner.err # ""
            THEN [st |-> inner.st, kwargs |-> kwargs, err |-> inner.err]
            ELSE resolve_types(inner.st, d, types, i + 1,
                               IF IsNotNone(inner.val)
                               THEN SetItem(kwargs, types[i].name, inner.val)
                               ELSE kwargs,
                               depth)

\* Container.resolve(symbol) on the container whose dict is d, as the
\* depth-th nested call. st = [dicts, nextObj, log] is the heap it runs on.
resolve(st, d, symbol, depth) ==
    IF depth > RecursionLimit
    THEN Returned([st |-> st, val |-> NoneV, err |-> "RecursionError"], symbol, depth)
    ELSE IF NotRegistered(st.dicts[d], symbol)
    THEN Returned([st |-> st, val |-> NoneV, err |-> ""], symbol, depth)
    ELSE IF symbol \notin DOMAIN st.dicts[d]
    THEN Returned([st |-> st, val |-> NoneV, err |-> "KeyError"], symbol, depth)
    ELSE LET dependency == st.dicts[d][symbol]
             args == resolve_types(st, d, dependency.types, 1, dependency.defaults, depth)
         IN IF args.err # ""
            THEN Returned([st |-> args.st, val |-> NoneV, err |-> args.err], symbol, depth)
            ELSE Returned(Dependency_resolve(args.st, d, symbol, args.kwargs, depth),
                          symbol, depth)

\* A call of Container.resolve(symbol) on container c.
Resolve(c, symbol) ==
    /\ Born(c)
    /\ \E r \in {resolve([dicts |-> dicts, nextObj |-> nextObj, log |-> << >>],
                           self_dependencies[c], symbol, 1)} :
          /\ r.st.nextObj <= MaxObjs
          /\ dicts' = r.st.dicts
          /\ nextObj' = r.st.nextObj
          /\ last' = [NoCall EXCEPT !.op = "resolve", !.c = c, !.symbol = symbol,
                                    !.val = r.val, !.err = r.err, !.log = r.st.log]
    /\ UNCHANGED <<self_dependencies, nextDep, view, threads>>

\* dependencies() that hands out the dict itself.
dependencies_plain_dict(c) == [c |-> c, ref |-> self_dependencies[c], readonly |-> FALSE]

\* Container.dependencies: MappingProxyType(self.__dependencies), a
\* read-only proxy that refers to the dict (no copy is made).
dependencies(c) == [c |-> c, ref |-> self_dependencies[c], readonly |-> TRUE]

\* A caller takes c.dependencies() and keeps it.
Dependencies(c) ==
    /\ Born(c)
    /\ view' = dependencies(c)
    /\ last' = [NoCall EXCEPT !.op = "dependencies", !.c = c]
    /\ UNCHANGED <<self_dependencies, dicts, nextDep, nextObj, threads>>

\* The keys the proxy shows: those of the dict it refers to.
ViewKeys(v) == DOMAIN dicts[v.ref]

\* dict.__delitem__
DelItem(d, k) == [x \in DOMAIN d \ {k} |-> d[x]]

\* `view[symbol] = Dependency(symbol)` on the proxy held: mappingproxy has
\* no __setitem__, the statement raises TypeError.
ViewSetItem(symbol) ==
    /\ view # NoView
    /\ IF view.readonly
       THEN /\ last' = [NoCall EXCEPT !.op = "setitem", !.c = view.c, !.symbol = symbol,
                                      !.err = "TypeError"]
            /\ UNCHANGED dicts
       ELSE /\ last' = [NoCall EXCEPT !.op = "setitem", !.c = view.c, !.symbol = symbol]
            /\ dicts' = [dicts EXCEPT ![view.ref] =
                            SetItem(@, symbol, Dependency(symbol, FALSE, NewDepId(@, symbol)))]
    /\ UNCHANGED <<self_dependencies, nextDep, nextObj, view, threads>>

\* `del view[symbol]` on the proxy held: mappingproxy has no __delitem__.
ViewDelItem(symbol) ==
    /\ view # NoView
    /\ IF view.readonly
       THEN /\ last' = [NoCall EXCEPT !.op = "delitem", !.c = view.c, !.symbol = symbol,
                                      !.err = "TypeError"]
            /\ UNCHANGED dicts
       ELSE /\ last' = [NoCall EXCEPT !.op = "delitem", !.c = view.c, !.symbol = symbol,
                                      !.err = IF symbol \in DOMAIN dicts[view.ref]
                                              THEN "" ELSE "KeyError"]
            /\ dicts' = [dicts EXCEPT ![view.ref] = DelItem(@, symbol)]
    /\ UNCHANGED <<self_dependencies, nextDep, nextObj, view, threads>>

Next ==
    \/ \E c \in Containers, explicit \in BOOLEAN : NewContainer(c, explicit)
    \/ \E c \in Containers, s \in Symbols : Has(c, s)
    \/ \E c \in Containers, reg \in Registrations, k \in BOOLEAN :
          Register(c, reg[1], reg[2], k)
    \/ \E c \in Containers, s \in Symbols : Resolve(c, s)

\* ------------------------------------------------------------------ binder
\* The field specification of the class the synthesized constructor is made
\* for:
\*   class Service:  name: str;  b: B;  c: C = None
FieldSpec ==
    << [name |-> "name", type |-> "str", default |-> NoDefault],
       [name |-> "b", type |-> "B", default |-> NoDefault],
       [name |-> "c", type |-> "C", default |-> NoneV] >>
FieldNames(fields) == {fields[i].name : i \in 1..Len(fields)}
FieldOf(fields, nm) == CHOOSE f \in Params(fields) : f.name = nm

\* Values a caller passes: a str, an int, objects it built itself.
StrV == [id |-> 0, cls |-> "str"]
CallerB == [id |-> -1, cls |-> "B"]
CallerC == [id |-> -2, cls |-> "C"]
\* The positional and the named arguments of the calls made.
PositionalArgs == { << >>, <<StrV>>, <<StrV, CallerB>> }
NamedArgs ==
    { << >>, << [name |-> "name", value |-> StrV] >>,
      << [name |-> "name", value |-> StrV], [name |-> "c", value |-> CallerC] >> }

\* The further calls made: a value of the wrong type by position, with b
\* omitted and with b passed; a named b, of the right and of the wrong
\* type; a key that is no field; one positional argument too many; None
\* passed for c.
ExtraCalls ==
    { << <<Int3>>, << >> >>,
      << <<Int3, CallerB>>, << >> >>,
      << <<StrV>>, << [name |-> "b", value |-> CallerB] >> >>,
      << <<StrV>>, << [name |-> "b", value |-> CallerC] >> >>,
      << <<StrV>>, << [name |-> "z", value |-> StrV] >> >>,
      << <<StrV, CallerB, CallerC, StrV>>, << >> >>,
      << <<StrV, CallerB>>, << [name |-> "c", value |-> NoneV] >> >> }
\* The calls of the constructor: <<positional, named>>.
Calls == (PositionalArgs \X NamedArgs) \cup ExtraCalls

\* Step 1: positional argument i is bound to field i.
BindPositional(fields, args) ==
    [nm \in {fields[i].name : i \in 1..Len(args)} |->
        args[CHOOSE i \in 1..Len(args) : fields[i].name = nm]]

\* Named arguments accepted unchecked.
FirstBadNamed_none(fields, pos, named) == 0

\* Step 2: the first named argument, in order, that is a duplicate of a
\* positional one or matches no field; 0 when there is none.
FirstBadNamed(fields, pos, named) ==
    LET bad == {k \in 1..Len(named) : \/ named[k].name \in DOMAIN pos
                                       \/ named[k].name \notin FieldNames(fields)}
    IN IF bad = {} THEN 0 ELSE CHOOSE k \in bad : \A j \in bad : k <= j

\* Named arguments dropped: only the positional values are bound.
BindNamed_positional_only(pos, named) == pos

\* Steps 1 and 2 done: the explicitly supplied values, by field name.
BindNamed(pos, named) ==
    [nm \in DOMAIN pos \cup {named[k].name : k \in 1..Len(named)} |->
        IF nm \in DOMAIN pos THEN pos[nm]
        ELSE named[CHOOSE k \in 1..Len(named) : named[k].name = nm].value]

RECURSIVE fill_fields(_, _, _, _, _, _)
\* Step 3, from field i on: a field not explicitly supplied is filled by
\* resolving its declared type when the registry has it and the resolution
\* is not None, else by its literal default, else it is missing.
fill_fields(st, c, fields, i, values, missing) ==
    IF i > Len(fields)
    THEN [st |-> st, values |-> values, missing |-> missing, err |-> ""]
    ELSE LET f == fields[i]
             \* (b), (c): the literal default, or the field is missing
             fallback(st2) ==
                 IF f.default # NoDefault
                 THEN fill_fields(st2, c, fields, i + 1,
                                  SetItem(values, f.name, f.default), missing)
                 ELSE fill_fields(st2, c, fields, i + 1, values, Append(missing, f.name))
         IN IF f.name \in DOMAIN values
            THEN fill_fields(st, c, fields, i + 1, values, missing)
            ELSE IF has(c, f.type)
            THEN LET r == CHOOSE x \in {resolve(st, self_dependencies[c], f.type, 1)} : TRUE
                 IN IF r.err # ""
                    THEN [st |-> r.st, values |-> values, missing |-> missing, err |-> r.err]
                    ELSE IF r.val # NoneV
                    THEN fill_fields(r.st, c, fields, i + 1,
                                     SetItem(values, f.name, r.val), missing)
                    ELSE fallback(r.st)
            ELSE fallback(st)

\* A type check that accepts every value.
Mismatched_none(fields, explicit) == {}

\* Step 5: the explicitly supplied fields, in declaration order, whose
\* value is not of the declared type.
Mismatched(fields, explicit) ==
    {i \in 1..Len(fields) : /\ fields[i].name \in DOMAIN explicit
                             /\ explicit[fields[i].name].cls # fields[i].type}

\* A missing-arguments error that names the first missing field only.
MissingArguments_first(missing) == <<Head(missing)>>

\* Step 4: the names the missing-arguments error lists.
MissingArguments(missing) == missing

\* A failing call that hands out the instance with the fields bound so far.
Raise_keeps_fields(st, e, nms, bound) ==
    [st |-> st, err |-> e, names |-> nms, fields |-> bound]

\* A binding error raised by the constructor: the call returns no instance,
\* whatever was bound so far.
Raise(st, e, nms, bound) ==
    [st |-> st, err |-> e, names |-> nms, fields |-> EmptyMap]

\* The synthesized constructor, called with args and named on the heap st,
\* bound to the registry c.
Binder(st, c, fields, args, named) ==
    IF Len(args) > Len(fields)
    THEN Raise(st, "unexpected positional argument", << >>,
               BindPositional(fields, SubSeq(args, 1, Len(fields))))
    ELSE LET pos == BindPositional(fields, args)
             bad == FirstBadNamed(fields, pos, named)
         IN IF bad # 0 /\ named[bad].name \in DOMAIN pos
            THEN Raise(st, "already provided as a positional argument",
                       <<named[bad].name>>, BindNamed(pos, SubSeq(named, 1, bad - 1)))
            ELSE IF bad # 0
            THEN Raise(st, "not found in class", <<named[bad].name>>,
                       BindNamed(pos, SubSeq(named, 1, bad - 1)))
            ELSE LET explicit == BindNamed(pos, named)
                     filled == fill_fields(st, c, fields, 1, explicit, << >>)
                     wrong == Mismatched(fields, explicit)
                 IN IF filled.err # ""
                    THEN Raise(filled.st, filled.err, << >>, filled.values)
                    ELSE IF filled.missing # << >>
                    THEN Raise(filled.st, "Missing arguments",
                               MissingArguments(filled.missing), filled.values)
                    ELSE IF wrong # {}
                    THEN Raise(filled.st, "Expected",
                               <<fields[CHOOSE i \in wrong : \A j \in wrong : i <= j].name>>,
                               filled.values)
                    ELSE [st |-> filled.st, err |-> "", names |-> << >>,
                          fields |-> filled.values]

\* A call Service(*args, **named) of the constructor synthesized with
\* container=c.
Construct(c, args, named) ==
    /\ Born(c)
    /\ \E r \in {Binder([dicts |-> dicts, nextObj |-> nextObj, log |-> << >>],
                          c, FieldSpec, args, named)} :
          /\ r.st.nextObj <= MaxObjs
          /\ dicts' = r.st.dicts
          /\ nextObj' = r.st.nextObj
          /\ last' = [NoCall EXCEPT !.op = "construct", !.c = c, !.symbol = "Service",
                                    !.err = r.err, !.log = r.st.log, !.args = args,
                                    !.named = named, !.fields = r.fields,
                                    !.names = r.names]
    /\ UNCHANGED <<self_dependencies, nextDep, view, threads>>

\* ----------------------------------------------------------------- threads
\* The registry the threads share and the register calls made on it: B
\* (whose instances are truthy) and C (whose instances are falsy).
RaceContainer == "c1"
RaceRegistrations == {<<"B", NoReplacement>>, <<"C", NoReplacement>>}

\* Thread t is inside a resolve call.
InFlight(t) == threads[t].pc \notin {"idle", "done"}
\* No call is in progress, and a resolve of the recipe c now holds for s
\* has completed.
Settled(c, s) ==
    /\ \A u \in Threads : ~InFlight(u)
    /\ \E u \in Threads :
          /\ threads[u].pc = "done" /\ threads[u].err = ""
          /\ threads[u].c = c /\ threads[u].symbol = s
          /\ s \in DOMAIN dicts[self_dependencies[c]]
          /\ threads[u].dep = dicts[self_dependencies[c]][s].id

\* Thread t calls c.resolve(s) and runs Container.resolve up to its last
\* line: not-found is returned at once; otherwise the keyword arguments
\* are assembled and the thread is about to enter Dependency.resolve.
ThreadCall(t, c, s) ==
    /\ Born(c)
    /\ ~InFlight(t)
    /\ LET d == self_dependencies[c]
           start == [Idle EXCEPT !.c = c, !.symbol = s, !.late = Settled(c, s)]
       IN IF NotRegistered(dicts[d], s)
          THEN /\ threads' = [threads EXCEPT ![t] = [start EXCEPT !.pc = "done"]]
               /\ UNCHANGED <<dicts, nextObj>>
          ELSE \E args \in {resolve_types([dicts |-> dicts, nextObj |-> nextObj, log |-> << >>],
                                            d, dicts[d][s].types, 1, dicts[d][s].defaults, 1)} :
                  /\ args.st.nextObj <= MaxObjs
                  /\ dicts' = args.st.dicts
                  /\ nextObj' = args.st.nextObj
                  /\ threads' = [threads EXCEPT ![t] =
                         [start EXCEPT !.pc = IF args.err # "" THEN "done" ELSE "entered",
                                       !.err = args.err, !.kwargs = args.kwargs,
                                       !.dep = dicts[d][s].id]]
    /\ UNCHANGED <<self_dependencies, nextDep, view, last>>

\* Dependency.resolve, the tests `if self.cached:` and
\* `if not self.instance:`: the thread reads the cache slot.
ThreadTest(t) ==
    /\ threads[t].pc = "entered"
    /\ LET dependency == dicts[self_dependencies[threads[t].c]][threads[t].symbol]
       IN threads' = [threads EXCEPT ![t].pc =
                         IF dependency.cached /\ ~NoInstance(dependency)
                         THEN "return" ELSE "invoke"]
    /\ UNCHANGED <<self_dependencies, dicts, nextDep, nextObj, view, last>>

\* Dependency.resolve, `self.instance = self.target(*args, **kwargs)` for a
\* cached recipe, `return self.target(*args, **kwargs)` for another.
ThreadInvoke(t) ==
    /\ threads[t].pc = "invoke"
    /\ LET d == self_dependencies[threads[t].c]
           s == threads[t].symbol
       IN \E r \in {Invoke([dicts |-> dicts, nextObj |-> nextObj, log |-> << >>],
                             s, dicts[d][s], threads[t].kwargs, 1)} :
             /\ r.st.nextObj <= MaxObjs
             /\ nextObj' = r.st.nextObj
             /\ IF r.err # ""
                THEN /\ threads' = [threads EXCEPT ![t].pc = "done", ![t].err = r.err]
                     /\ UNCHANGED dicts
                ELSE IF dicts[d][s].cached
                THEN /\ dicts' = [dicts EXCEPT ![d][s].instance = r.val]
                     /\ threads' = [threads EXCEPT ![t].pc = "return",
                                                   ![t].invoked = TRUE]
                ELSE /\ threads' = [threads EXCEPT ![t].pc = "done", ![t].val = r.val,
                                                   ![t].invoked = TRUE]
                     /\ UNCHANGED dicts
    /\ UNCHANGED <<self_dependencies, nextDep, view, last>>

\* Dependency.resolve, `return self.instance`: the slot is read again.
ThreadReturn(t) ==
    /\ threads[t].pc = "return"
    /\ threads' = [threads EXCEPT
          ![t].pc = "done",
          ![t].val = dicts[self_dependencies[threads[t].c]][threads[t].symbol].instance]
    /\ UNCHANGED <<self_dependencies, dicts, nextDep, nextObj, view, last>>

\* ------------------------------------------------------------- observers
\* Whether container c holds an entry for s, read from the heap.
Registered(c, s) == Born(c) /\ s \in DOMAIN dicts[self_dependencies[c]]
\* The Dependency container c holds for s.
Dep(c, s) == dicts[self_dependencies[c]][s]
\* The invocations of the target of symbol s made at depth k of a trace.
Invokes(log, s, k) ==
    {i \in 1..Len(log) : log[i].ev = "invoke" /\ log[i].symbol = s /\ log[i].depth = k}
\* What the nested resolve(T) made for invocation i of a trace returned:
\* the latest return of a resolve(T) one level below, before i.
NestedResult(log, i, T) ==
    LET js == {j \in 1..(i - 1) : log[j].ev = "return" /\ log[j].symbol = T
                                     /\ log[j].depth = log[i].depth + 1}
    IN log[CHOOSE j \in js : \A k \in js : k <= j].val
\* The entry container c shows for s: 0 when it has none (or c is not yet
\* created), the identity of the Dependency otherwise.
EntryIn(sd, ds, c, s) ==
    IF sd[c] # Unborn /\ s \in DOMAIN ds[sd[c]] THEN ds[sd[c]][s].id ELSE 0
\* The parameter types of invocation i that resolved to something: the
\* type is registered and the nested resolve returned other than None.
ResolvedParam(c, log, i, p) ==
    /\ p.annotation # Empty
    /\ Registered(c, p.annotation)
    /\ NestedResult(log, i, p.annotation) # NoneV
\* The keyword arguments the claim C7 gives invocation i of a trace.
ExpectedKwargs(c, log, i) ==
    LET ps == Params(Signature(log[i].target))
        present == {p \in ps : ResolvedParam(c, log, i, p) \/ p.default # NoDefault}
    IN [nm \in {p.name : p \in present} |->
           LET p == CHOOSE q \in present : q.name = nm
           IN IF ResolvedParam(c, log, i, p)
              THEN NestedResult(log, i, p.annotation)
              ELSE p.default]
\* What the binder's resolve(T) returned in a trace; Unattempted when the
\* trace holds no resolve(T).
Unattempted == [id |-> 0, cls |-> "unattempted"]
BinderResolved(log, T) ==
    LET js == {j \in 1..Len(log) : log[j].ev = "return" /\ log[j].symbol = T
                                    /\ log[j].depth = 1}
    IN IF js = {} THEN Unattempted ELSE log[CHOOSE j \in js : \A k \in js : k <= j].val
\* The fields a constructor call supplied explicitly, by position or name.
ExplicitNames(args, named) ==
    {FieldSpec[i].name : i \in 1..Len(args)} \cup {named[k].name : k \in 1..Len(named)}
\* The elements of a sequence.
SeqSet(seq) == {seq[i] : i \in 1..Len(seq)}
\* A constructor call read from its arguments alone: the fields its
\* positional arguments stand for, the named keys that repeat one of them,
\* the named keys that are no field.
PositionalNames(args) == {FieldSpec[i].name : i \in 1..Len(args)}
NamedKeys(named) == {named[k].name : k \in 1..Len(named)}
Duplicated(args, named) == NamedKeys(named) \cap PositionalNames(args)
UnknownKeys(named) == NamedKeys(named) \ FieldNames(FieldSpec)
\* The call passes steps 1 and 2.
WellFormedCall(args, named) ==
    /\ Len(args) <= Len(FieldSpec)
    /\ Duplicated(args, named) = {}
    /\ UnknownKeys(named) = {}
\* The value a well-formed call supplies for the field nm.
SuppliedValue(args, named, nm) ==
    LET i == CHOOSE k \in 1..Len(FieldSpec) : FieldSpec[k].name = nm
    IN IF i <= Len(args) THEN args[i]
       ELSE named[CHOOSE k \in 1..Len(named) : named[k].name = nm].value
\* The explicitly supplied fields whose value is not of the declared type.
MismatchedExplicit(args, named) ==
    {nm \in ExplicitNames(args, named) :
        SuppliedValue(args, named, nm).cls # FieldOf(FieldSpec, nm).type}
\* A resolve made by the binder raised.
ResolveFailed(log) ==
    \E j \in 1..Len(log) : log[j].ev = "return" /\ log[j].depth = 1 /\ log[j].err # ""
\* The fields of a well-formed call left without a value: not supplied,
\* without a literal default, and of a type that the registry lacks or
\* resolves to None.
Unresolved(c, args, named, log) ==
    {f.name : f \in {g \in Params(FieldSpec) :
        /\ g.name \notin ExplicitNames(args, named)
        /\ g.default = NoDefault
        /\ ~(Registered(c, g.type) /\ BinderResolved(log, g.type) \notin {NoneV, Unattempted})}}
\* What Service("x") gives when called now on the constructor bound to c:
\* the error, the names it reports and the class of each field.
Constructed(c) ==
    LET r == CHOOSE x \in {Binder([dicts |-> dicts, nextObj |-> nextObj, log |-> << >>],
                                   c, FieldSpec, <<StrV>>, << >>)} : TRUE
    IN [err |-> r.err, names |-> r.names,
        classes |-> [nm \in DOMAIN r.fields |-> r.fields[nm].cls]]
\* The graph of a registry's content d: the registered symbols that the
\* recipe of s declares as parameter types.
Succ(d, s) ==
    IF s \in DOMAIN d THEN {t.symbol : t \in SeqSet(d[s].types)} \cap DOMAIN d ELSE {}
RECURSIVE ReachFrom(_, _, _)
\* The symbols reached from the set R in at most n further edges.
ReachFrom(d, R, n) ==
    IF n = 0 THEN R
    ELSE ReachFrom(d, R \cup UNION {Succ(d, r) : r \in R}, n - 1)
\* The registered symbols reachable from s in one edge or more.
ReachPlus(d, s) == ReachFrom(d, Succ(d, s), Cardinality(Symbols))
\* s lies on a cycle; a cycle is reachable from s.
OnCycle(d, s) == s \in ReachPlus(d, s)
Cyclic(d, s) == \E t \in {s} \cup ReachPlus(d, s) : OnCycle(d, t)
RECURSIVE Sum(_, _)
\* f[1] + ... + f[n]
Sum(f, n) == IF n = 0 THEN 0 ELSE f[n] + Sum(f, n - 1)
RECURSIVE PathsRegistered(_, _)
\* The paths from s in the graph among registered symbols (s alone is one).
PathsRegistered(d, s) ==
    LET ts == SelectSeq(d[s].types, LAMBDA t : t.symbol \in DOMAIN d)
    IN 1 + Sum([i \in 1..Len(ts) |-> PathsRegistered(d, ts[i].symbol)], Len(ts))
RECURSIVE PathsDeclared(_, _)
\* The paths of one edge or more from s in the graph of declared parameter
\* types, where a declared type that is not registered is a leaf.
PathsDeclared(d, s) ==
    IF s \notin DOMAIN d THEN 0
    ELSE Sum([i \in 1..Len(d[s].types) |-> 1 + PathsDeclared(d, d[s].types[i].symbol)],
             Len(d[s].types))
\* The resolve calls nested in the call a trace is of.
NestedResolves(log) ==
    Cardinality({i \in 1..Len(log) : log[i].ev = "return" /\ log[i].depth > 1})
\* The events of the resolve call that return event j of a trace ends:
\* those after the latest earlier return at the same depth or above.
SpanStart(log, j) ==
    LET ps == {i \in 1..(j - 1) : log[i].ev = "return" /\ log[i].depth <= log[j].depth}
    IN IF ps = {} THEN 0 ELSE CHOOSE i \in ps : \A k \in ps : k <= i
\* The resolve calls made directly by that call, and its own invocation of
\* the target.
ChildReturns(log, j) ==
    {i \in (SpanStart(log, j) + 1)..(j - 1) :
        log[i].ev = "return" /\ log[i].depth = log[j].depth + 1}
OwnInvokes(log, j) ==
    {i \in (SpanStart(log, j) + 1)..(j - 1) :
        log[i].ev = "invoke" /\ log[i].depth = log[j].depth}
\* The invocations of the target of symbol s in a trace, at any depth.
InvokesOf(log, s) == {i \in 1..Len(log) : log[i].ev = "invoke" /\ log[i].symbol = s}
\* The invocations of the target of s, made by the call itself, that lack
\* a required parameter.
FailedInvokes(log, s) ==
    {i \in Invokes(log, s, 1) : Required(log[i].target) \ DOMAIN log[i].kwargs # {}}
\* No resolve nested directly in the call raised.
NestedSucceeded(log) ==
    \A j \in 1..Len(log) : (log[j].ev = "return" /\ log[j].depth = 2) => log[j].err = ""
\* The latest value a target of T returned in a trace.
LastMade(log, T) ==
    LET done == {i \in InvokesOf(log, T) : log[i].err = ""}
    IN log[CHOOSE i \in done : \A k \in done : k <= i].val
\* The step just taken is the call op(c, s).
Called(op, c, s) == last'.op = op /\ last'.c = c /\ last'.symbol = s
\* The call just made is a resolve of a symbol its container holds.
ResolvedRegistered ==
    last.op = "resolve" /\ Registered(last.c, last.symbol)

\* The registry under register, has and resolve.
Spec == Init /\ [][Next]_vars

NextView ==
    \/ \E c \in Containers, explicit \in BOOLEAN : NewContainer(c, explicit)
    \/ \E c \in Containers, s \in Symbols : Has(c, s)
    \/ \E c \in Containers, reg \in Registrations, k \in BOOLEAN :
          Register(c, reg[1], reg[2], k)
    \/ \E c \in Containers : Dependencies(c)
    \/ \E s \in Symbols : ViewSetItem(s)
    \/ \E s \in Symbols : ViewDelItem(s)

\* The registry under register and has, with callers that hold the proxy
\* dependencies() returns and try to write through it.
SpecView == Init /\ [][NextView]_vars

NextBinder ==
    \/ \E c \in Containers, explicit \in BOOLEAN : NewContainer(c, explicit)
    \/ \E c \in Containers, reg \in Registrations, k \in BOOLEAN :
          nextDep < MaxBinderRegs /\ Register(c, reg[1], reg[2], k)
    \/ \E c \in Containers, call \in Calls : Construct(c, call[1], call[2])

\* The registry under register, with callers of a synthesized constructor.
SpecBinder == Init /\ [][NextBinder]_vars

NextGraph ==
    \/ NewContainer(GraphContainer, FALSE)
    \/ \E reg \in GraphRegistrations, k \in BOOLEAN :
          Register(GraphContainer, reg[1], reg[2], k)
    \/ \E s \in Symbols : Resolve(GraphContainer, s)

\* One registry under register and resolve, with recipes that make chains,
\* a diamond and cycles of declared parameter types.
SpecGraph == Init /\ [][NextGraph]_vars

NextRace ==
    \/ NewContainer(RaceContainer, FALSE)
    \/ \E reg \in RaceRegistrations, k \in BOOLEAN :
          /\ \A t \in Threads : ~InFlight(t)
          /\ Register(RaceContainer, reg[1], reg[2], k)
    \/ \E t \in Threads, s \in {"B", "C"} : ThreadCall(t, RaceContainer, s)
    \/ \E t \in Threads : ThreadTest(t)
    \/ \E t \in Threads : ThreadInvoke(t)
    \/ \E t \in Threads : ThreadReturn(t)

\* One registry, set up while no call is in progress, and two threads
\* whose resolve calls interleave statement by statement.
SpecRace == Init /\ [][NextRace]_vars

\* ------------------------------------------------------------------ claims
\* C1: two successive resolve calls on a symbol registered with cached=true
\* return the identical instance, and the second does not invoke the target
\* (the target is invoked once in total).
C1_CachedResolvesOnce ==
    [][\A c \in Containers, s \in Symbols :
          (/\ last.op = "resolve" /\ last.c = c /\ last.symbol = s /\ last.err = ""
           /\ Called("resolve", c, s)
           /\ Registered(c, s) /\ Dep(c, s).cached)
          => (last'.val = last.val /\ Invokes(last'.log, s, 1) = {})]_vars

\* C2, as stated: a resolve of a symbol registered with cached=false invokes
\* the target, returns an instance no earlier call returned (an object made
\* by this call), and leaves the cache slot empty.
C2_UncachedDistinct ==
    (ResolvedRegistered /\ last.err = "" /\ ~Dep(last.c, last.symbol).cached)
    => (/\ \E i \in Invokes(last.log, last.symbol, 1) : last.log[i].val = last.val
        /\ last.val.id >= 1 /\ last.val.id = nextObj
        /\ Dep(last.c, last.symbol).instance = NoneV)

\* C2, amended: a resolve of a symbol registered with cached=false invokes
\* the target once and returns what that invocation returned, which is an
\* object made by this call unless the target returns None; the cache slot
\* stays empty.
C2_UncachedInvokesAnew ==
    (ResolvedRegistered /\ last.err = "" /\ ~Dep(last.c, last.symbol).cached)
    => (/\ Cardinality(Invokes(last.log, last.symbol, 1)) = 1
        /\ \A i \in Invokes(last.log, last.symbol, 1) : last.log[i].val = last.val
        /\ (ReturnClass(Dep(last.c, last.symbol).target) # "NoneType"
              => (last.val.id >= 1 /\ last.val.id = nextObj))
        /\ Dep(last.c, last.symbol).instance = NoneV)

\* A second instance of C returned by a resolve of a non-cached C.
C2_Witness ==
    /\ ResolvedRegistered /\ last.err = "" /\ last.symbol = "C"
    /\ ~Dep(last.c, "C").cached /\ Dep(last.c, "C").target = "C"
    /\ last.val.id >= 2

\* C3: a Container created without a dependencies mapping starts with no
\* entries, and a register call on one such Container changes the entries
\* of no other Container.
C3_IndependentContainers ==
    [][\A c \in Containers :
          /\ (~Born(c) /\ self_dependencies'[c] = DefaultDict)
                => DOMAIN dicts'[self_dependencies'[c]] = {}
          /\ (Born(c) /\ last'.op = "register" /\ last'.c # c /\ nextDep' # nextDep
               /\ self_dependencies[last'.c] = DefaultDict)
                => dicts'[self_dependencies[c]] = dicts[self_dependencies[c]]]_vars

\* C4: resolve of a symbol the container has no entry for returns None and
\* raises nothing.
C4_UnregisteredResolvesNone ==
    (last.op = "resolve" /\ ~Registered(last.c, last.symbol))
    => (last.val = NoneV /\ last.err = "")

\* A not-found resolve on a container that holds other symbols.
C4_Witness ==
    /\ last.op = "resolve" /\ ~Registered(last.c, last.symbol)
    /\ DOMAIN dicts[self_dependencies[last.c]] # {}
    /\ last.val = NoneV

\* C5: every invocation of a target during resolve passes, for each
\* parameter whose declared type is registered, what the nested resolve of
\* that type returned.
C5_TypedParameterBound ==
    last.op = "resolve" =>
        \A i \in 1..Len(last.log) :
            last.log[i].ev = "invoke" =>
                \A p \in Params(Signature(last.log[i].target)) :
                    (p.annotation # Empty /\ Registered(last.c, p.annotation))
                    => (/\ p.name \in DOMAIN last.log[i].kwargs
                        /\ last.log[i].kwargs[p.name] =
                               NestedResult(last.log, i, p.annotation))

\* C6: register(s, t2, cached=c2) leaves s registered with a new recipe of
\* target t2, caching mode c2 and an empty cache slot, whatever was there;
\* and every resolve(s) that returns was produced by the recipe then held:
\* by an invocation of its target in this call, or, for a cached recipe,
\* by its own cache slot.
C6_ReRegistrationReplaces ==
    [][\A c \in Containers, s \in Symbols :
          /\ (Called("register", c, s) /\ nextDep' # nextDep)
              => LET old == dicts[self_dependencies[c]]
                     new == dicts'[self_dependencies[c]]
                 IN /\ s \in DOMAIN new
                    /\ new[s].target = TargetOf(s, last'.replacement)
                    /\ new[s].cached = last'.cached
                    /\ new[s].instance = NoneV
                    /\ s \in DOMAIN old => new[s].id # old[s].id
          /\ (Called("resolve", c, s) /\ Registered(c, s) /\ last'.err = "")
              => LET dep == Dep(c, s)
                 IN /\ EntryIn(self_dependencies', dicts', c, s) = dep.id
                    /\ \/ \E i \in Invokes(last'.log, s, 1) :
                              /\ last'.log[i].dep = dep.id
                              /\ last'.log[i].target = dep.target
                              /\ last'.log[i].val = last'.val
                       \/ /\ dep.cached
                          /\ dep.instance # NoneV
                          /\ last'.val = dep.instance]_vars

\* B registered cached, resolved, registered again cached and resolved: the
\* second recipe returns its own instance, not the first one's.
C6_Witness ==
    /\ ResolvedRegistered /\ last.symbol = "B" /\ last.err = ""
    /\ nextDep = 2 /\ Dep(last.c, "B").id = 2 /\ Dep(last.c, "B").cached
    /\ last.val.id = 2 /\ Dep(last.c, "B").instance = last.val

\* C7: the keyword arguments of every invocation are, per parameter, the
\* resolved instance of its declared type when that type is registered and
\* resolves to other than None, else its default when it has one, else
\* nothing.
C7_KwargsAssembled ==
    last.op = "resolve" =>
        \A i \in 1..Len(last.log) :
            last.log[i].ev = "invoke" =>
                last.log[i].kwargs = ExpectedKwargs(last.c, last.log, i)

\* B(c: C = "lit") invoked with a resolved (falsy) C instance in place of
\* its default, and A invoked with its default n and a resolved B.
C7_Witness ==
    /\ last.op = "resolve" /\ last.symbol = "A" /\ last.err = ""
    /\ \E i, j \in 1..Len(last.log) :
          /\ last.log[i].ev = "invoke" /\ last.log[i].target = "B"
          /\ last.log[i].kwargs["c"].cls = "C"
          /\ last.log[j].ev = "invoke" /\ last.log[j].target = "A"
          /\ last.log[j].kwargs["n"] = Int3
          /\ last.log[j].kwargs["b"] = last.log[i].val

\* C8: no write through the mapping dependencies() returned succeeds or
\* changes a registry entry, and the keys it shows are at every moment the
\* symbols has() is true for.
C8_ViewReadOnly ==
    /\ [](view # NoView => ViewKeys(view) = {s \in Symbols : Registered(view.c, s)})
    /\ [][(last'.op \in {"setitem", "delitem"})
            => (last'.err = "TypeError" /\ dicts' = dicts)]_vars

\* A delete of an entry the proxy shows, refused.
C8_Witness ==
    /\ last.op = "delitem" /\ last.err = "TypeError"
    /\ last.symbol \in ViewKeys(view)
    /\ Registered(last.c, last.symbol)

\* C9: resolve and has leave the symbol-to-recipe mapping of every
\* container unchanged, and the entry a container shows for s changes only
\* by a register(s, ...) call on that container; so has(s) is true exactly
\* when register was called for s on this container.
C9_OnlyRegisterChangesEntries ==
    [][\A c \in Containers, s \in Symbols :
          EntryIn(self_dependencies', dicts', c, s) # EntryIn(self_dependencies, dicts, c, s)
          => Called("register", c, s)]_vars

\* C10: a field omitted from a successful constructor call holds the result
\* of resolving its declared type when the binder's registry has that type
\* and the resolution is not None, also when the field has a literal
\* default; it holds the literal default only otherwise.
C10_RegisteredTypeBeatsDefault ==
    (last.op = "construct" /\ last.err = "")
    => \A f \in Params(FieldSpec) :
          f.name \notin ExplicitNames(last.args, last.named)
          => IF /\ Registered(last.c, f.type)
                /\ BinderResolved(last.log, f.type) # NoneV
             THEN /\ last.fields[f.name] = BinderResolved(last.log, f.type)
                  /\ last.fields[f.name].cls = ReturnClass(Dep(last.c, f.type).target)
             ELSE /\ f.default # NoDefault
                  /\ last.fields[f.name] = f.default

\* Service("x") with B and C registered: c is a resolved C, not its default
\* None.
C10_Witness ==
    /\ last.op = "construct" /\ last.err = ""
    /\ "c" \notin ExplicitNames(last.args, last.named)
    /\ Registered(last.c, "C")
    /\ last.fields["c"].cls = "C" /\ last.fields["c"].id >= 1

\* C11: a value supplied explicitly for a field, by position or by name, is
\* the value the field holds, and the binder resolves the type of no
\* explicitly supplied field, registered or not.
C11_ExplicitValueWins ==
    (last.op = "construct" /\ WellFormedCall(last.args, last.named))
    => \A nm \in ExplicitNames(last.args, last.named) :
          /\ BinderResolved(last.log, FieldOf(FieldSpec, nm).type) = Unattempted
          /\ last.err = "" => last.fields[nm] = SuppliedValue(last.args, last.named, nm)

\* Service("x", b) and Service("x", b=b) with B registered: b holds the
\* caller's object and no resolve(B) was made.
C11_Witness ==
    /\ last.op = "construct" /\ last.err = ""
    /\ "b" \in ExplicitNames(last.args, last.named)
    /\ Registered(last.c, "B")
    /\ last.fields["b"] = CallerB
    /\ last.log = << >>

\* C12: a call that passes steps 1 to 3 with fields left unresolved fails
\* with the missing-arguments error, which names every unresolved field
\* once and no other field; and the error is raised in no other case.
C12_AllMissingReported ==
    last.op = "construct" =>
        /\ (/\ WellFormedCall(last.args, last.named)
            /\ ~ResolveFailed(last.log)
            /\ Unresolved(last.c, last.args, last.named, last.log) # {})
           => last.err = "Missing arguments"
        /\ last.err = "Missing arguments"
           => /\ SeqSet(last.names) = Unresolved(last.c, last.args, last.named, last.log)
              /\ Len(last.names) = Cardinality(SeqSet(last.names))
              /\ last.names # << >>

\* Service() with B not registered: name and b are both reported, c (which
\* has a default) is not.
C12_Witness ==
    /\ last.op = "construct" /\ last.err = "Missing arguments"
    /\ last.names = <<"name", "b">>

\* C13: a call with a named argument that repeats a positionally bound
\* field, or that is no field, returns no instance; when the named
\* arguments repeat a field and none is unknown the error is the
\* duplicate-argument error naming a repeated field, when one is unknown
\* and none repeats a field it is the unknown-argument error naming an
\* unknown key.
C13_DuplicateAndUnknownRejected ==
    (last.op = "construct" /\ Len(last.args) <= Len(FieldSpec))
    => LET dup == Duplicated(last.args, last.named)
           unk == UnknownKeys(last.named)
       IN /\ (dup \cup unk # {}) => (last.err # "" /\ last.fields = EmptyMap)
          /\ (dup # {} /\ unk = {})
                => /\ last.err = "already provided as a positional argument"
                   /\ Len(last.names) = 1 /\ last.names[1] \in dup
          /\ (unk # {} /\ dup = {})
                => /\ last.err = "not found in class"
                   /\ Len(last.names) = 1 /\ last.names[1] \in unk
          /\ last.err = "already provided as a positional argument" => dup # {}
          /\ last.err = "not found in class" => unk # {}

\* Service("x", name="x"): the duplicate-argument error names `name`.
C13_Witness ==
    /\ last.op = "construct"
    /\ last.err = "already provided as a positional argument"
    /\ last.names = <<"name">>
    /\ last.fields = EmptyMap

C15_AllOrNothing ==
    last.op = "construct" =>
        \/ last.err = "" /\ DOMAIN last.fields = FieldNames(FieldSpec)
        \/ last.err # "" /\ last.fields = EmptyMap

\* A call that bound name and injected c before it failed on the missing b.
C15_Witness ==
    /\ last.op = "construct" /\ last.err = "Missing arguments"
    /\ Len(last.args) >= 1
    /\ BinderResolved(last.log, "C").cls = "C"
    /\ last.fields = EmptyMap

\* C16: a constructor bound to the registry c fills its fields from c only:
\* bound to a registry just created, on which register was never called,
\* it injects nothing (Service("x") misses b), whatever was registered on
\* the other registry; and once B is registered (as itself) on c, b is
\* injected.
C16_BoundRegistryOnly ==
    /\ last.op = "new"
        => (/\ Constructed(last.c).err = "Missing arguments"
            /\ Constructed(last.c).names = <<"b">>)
    /\ (last.op = "register" /\ last.symbol = "B" /\ last.replacement = NoReplacement)
        => (/\ Constructed(last.c).err = ""
            /\ Constructed(last.c).classes["b"] = "B")

\* C17: a resolve or has call changes, of any recipe a registry holds, at
\* most the cache slot: target, cached flag, parameter types and parameter
\* defaults stay as register built them; and the cache slot changes only
\* for a cached recipe, from empty to an instance its target returned in
\* this call.
C17_RecipeImmutable ==
    [][last'.op \in {"resolve", "has"}
        => \A d \in Dicts : \A s \in DOMAIN dicts[d] :
              /\ s \in DOMAIN dicts'[d]
              /\ LET old == dicts[d][s]
                     new == dicts'[d][s]
                 IN /\ new.id = old.id
                    /\ new.target = old.target
                    /\ new.cached = old.cached
                    /\ new.types = old.types
                    /\ new.defaults = old.defaults
                    /\ new.instance # old.instance
                        => /\ old.cached
                           /\ old.instance = NoneV
                           /\ \E i \in 1..Len(last'.log) :
                                 /\ last'.log[i].ev = "invoke"
                                 /\ last'.log[i].symbol = s
                                 /\ last'.log[i].val = new.instance]_vars

\* C18, as stated: when no cycle is reachable from s among the registered
\* symbols, resolve(s) ends without exhausting the stack, and the resolve
\* calls nested in it are no more than the paths from s in the graph among
\* registered symbols.
C18_NestedBoundedByRegisteredPaths ==
    (ResolvedRegistered /\ ~Cyclic(dicts[self_dependencies[last.c]], last.symbol))
    => /\ last.err \in {"", "TypeError"}
       /\ NestedResolves(last.log)
             <= PathsRegistered(dicts[self_dependencies[last.c]], last.symbol)

\* C18, amended: when no cycle is reachable from s among the registered
\* symbols, resolve(s) ends without exhausting the stack (it returns, or a
\* target's TypeError propagates), and the resolve calls nested in it are
\* no more than the paths of one edge or more from s in the graph of
\* declared parameter types with the unregistered types as leaves; they
\* are exactly as many when the call returns.
C18_AcyclicTerminates ==
    (ResolvedRegistered /\ ~Cyclic(dicts[self_dependencies[last.c]], last.symbol))
    => /\ last.err \in {"", "TypeError"}
       /\ NestedResolves(last.log)
             <= PathsDeclared(dicts[self_dependencies[last.c]], last.symbol)
       /\ last.err = ""
           => NestedResolves(last.log)
                = PathsDeclared(dicts[self_dependencies[last.c]], last.symbol)

\* A provided by mkTwo(b: B, c: C = "lit") with B and C registered: resolve(A)
\* makes three nested resolves (B, C inside B, C) and returns.
C18_Witness ==
    /\ ResolvedRegistered /\ last.symbol = "A" /\ last.err = ""
    /\ Dep(last.c, "A").target = "mkTwo"
    /\ Registered(last.c, "B") /\ Registered(last.c, "C")
    /\ NestedResolves(last.log) = 3

\* C19: when a cycle is reachable from s among the registered symbols,
\* resolve(s) returns no value: the nested calls go on until the stack is
\* exhausted, and no target of a symbol on a cycle is invoked; also when a
\* cached recipe on the cycle already holds an instance.
C19_CycleNeverReturns ==
    (ResolvedRegistered /\ Cyclic(dicts[self_dependencies[last.c]], last.symbol))
    => /\ last.err = "RecursionError"
       /\ last.val = NoneV
       /\ \E i \in 1..Len(last.log) : last.log[i].depth > RecursionLimit
       /\ \A i \in 1..Len(last.log) :
             last.log[i].ev = "invoke"
             => ~OnCycle(dicts[self_dependencies[last.c]], last.log[i].symbol)

\* A registered cached and resolved while B was acyclic, then B provided by
\* mkCyc(a: A): resolve(A) recurses although A holds its cached instance.
C19_Witness ==
    /\ ResolvedRegistered /\ last.symbol = "A" /\ last.err = "RecursionError"
    /\ Dep(last.c, "A").cached /\ Dep(last.c, "A").instance.cls = "A"
    /\ Dep(last.c, "B").target = "mkCyc"

\* The race of C20: both threads have completed a resolve of the same
\* cached recipe, each invoked the target, and they hold different
\* instances.
C20_RaceReached ==
    /\ \A t \in Threads : threads[t].pc = "done" /\ threads[t].err = ""
                           /\ threads[t].invoked /\ ~threads[t].late
    /\ threads["t1"].symbol = threads["t2"].symbol
    /\ threads["t1"].dep = threads["t2"].dep
    /\ Registered(threads["t1"].c, threads["t1"].symbol)
    /\ Dep(threads["t1"].c, threads["t1"].symbol).cached
    /\ Dep(threads["t1"].c, threads["t1"].symbol).id = threads["t1"].dep
    /\ threads["t1"].val # threads["t2"].val

\* C20: two threads that run the first resolve of a cached recipe
\* concurrently can both invoke the target and receive different instances
\* (C20_RaceReached); and a resolve of a cached recipe that starts once a
\* resolve of it has completed and no call is in progress does not invoke
\* the target: it returns the instance the slot holds, the same for every
\* such call.
C20_SettlesAfterRace ==
    \A t \in Threads :
        (/\ threads[t].pc = "done" /\ threads[t].late /\ threads[t].err = ""
         /\ Registered(threads[t].c, threads[t].symbol)
         /\ Dep(threads[t].c, threads[t].symbol).id = threads[t].dep
         /\ Dep(threads[t].c, threads[t].symbol).cached)
        => /\ ~threads[t].invoked
           /\ threads[t].val = Dep(threads[t].c, threads[t].symbol).instance

\* The first half of C21: in every resolve call of a registered symbol that
\* ends without error, at any depth, each declared parameter type that is
\* registered was resolved by a nested call, all of them before the target
\* was invoked (and so before the cache was consulted).
DependenciesResolvedFirst(d, log) ==
    \A j \in 1..Len(log) :
        (log[j].ev = "return" /\ log[j].err = "" /\ log[j].symbol \in DOMAIN d)
        => /\ \A t \in SeqSet(d[log[j].symbol].types) :
                 t.symbol \in DOMAIN d
                 => \E i \in ChildReturns(log, j) : log[i].symbol = t.symbol
           /\ \A i \in ChildReturns(log, j), k \in OwnInvokes(log, j) : i < k

\* C21: on every resolve(s) of a registered symbol the registered declared
\* parameter types are resolved first; and a resolve of a cached symbol
\* that already holds its instance returns that instance without invoking
\* its target, while the target of each non-cached registered symbol
\* reachable from s is invoked once in the call.
C21_DependenciesResolvedEveryCall ==
    [][\A c \in Containers, s \in Symbols :
          (Called("resolve", c, s) /\ Registered(c, s))
          => LET d == dicts[self_dependencies[c]]
             IN /\ DependenciesResolvedFirst(d, last'.log)
                /\ (d[s].cached /\ d[s].instance # NoneV /\ last'.err = "")
                    => /\ last'.val = d[s].instance
                       /\ Invokes(last'.log, s, 1) = {}
                       /\ \A T \in ReachPlus(d, s) :
                             ~d[T].cached
                             => Cardinality(InvokesOf(last'.log, T)) = 1]_vars

\* C22: when the invocation of the target fails in resolve(s), the error
\* reaches the caller (no not-found value is returned), the registry holds
\* the same recipes as before, the cache slot of s is empty, and the cache
\* slot of every cached dependency whose target returned during the call
\* holds what it returned; and a resolve(s) that starts with the slot of s
\* empty, and whose nested resolves raise nothing, invokes the target.
C22_FailedInvocationPropagates ==
    [][\A c \in Containers, s \in Symbols :
          (Called("resolve", c, s) /\ Registered(c, s))
          => LET old == dicts[self_dependencies[c]]
                 new == dicts'[self_dependencies[c]]
             IN /\ FailedInvokes(last'.log, s) # {}
                    => /\ last'.err = "TypeError"
                       /\ DOMAIN new = DOMAIN old
                       /\ \A T \in DOMAIN old :
                             /\ new[T].id = old[T].id
                             /\ new[T].target = old[T].target
                             /\ new[T].cached = old[T].cached
                       /\ new[s].instance = NoneV
                       /\ \A T \in DOMAIN old \ {s} :
                             (old[T].cached
                               /\ \E i \in InvokesOf(last'.log, T) : last'.log[i].err = "")
                             => new[T].instance = LastMade(last'.log, T)
                /\ (old[s].instance = NoneV /\ NestedSucceeded(last'.log))
                    => Invokes(last'.log, s, 1) # {}]_vars

\* A provided by mkTwo(b: B, c: C = "lit") with B unregistered and C
\* cached: resolve(A) raises, the slot of A is empty and the slot of C holds
\* the instance made during the call.
C22_Witness ==
    /\ ResolvedRegistered /\ last.symbol = "A" /\ last.err = "TypeError"
    /\ FailedInvokes(last.log, "A") # {}
    /\ Dep(last.c, "A").instance = NoneV
    /\ Registered(last.c, "C") /\ Dep(last.c, "C").cached
    /\ InvokesOf(last.log, "C") # {}
    /\ Dep(last.c, "C").instance = LastMade(last.log, "C")
    /\ Dep(last.c, "C").instance # NoneV

\* C23: a resolve that returns, returns None exactly when the symbol is
\* not registered; and at every invocation made during a resolve, each
\* parameter whose declared type is registered is among the keyword
\* arguments, bound to what the nested resolve of that type returned.
C23_NotFoundIffUnregistered ==
    (last.op = "resolve" /\ last.err = "")
    => /\ (last.val = NoneV) <=> ~Registered(last.c, last.symbol)
       /\ \A i \in 1..Len(last.log) :
             last.log[i].ev = "invoke"
             => \A t \in SeqSet(TypesOf(Signature(last.log[i].target),
                                         Len(Signature(last.log[i].target)))) :
                   Registered(last.c, t.symbol)
                   => /\ t.name \in DOMAIN last.log[i].kwargs
                      /\ last.log[i].kwargs[t.name] = NestedResult(last.log, i, t.symbol)
====
